---- MODULE Spec2Model ----
(***************************************************************************)
(* Model of the otel-example-go tutorial: the HTTP server of app1/main.go, *)
(* the telemetry package (InitProvider, handleErr, getSampler) and the     *)
(* client program (initTracer, main) that sends one traced request.        *)
(* The OpenTelemetry SDK pieces the programs call (sampler, propagators,   *)
(* batch span processor, exporter) are modelled by what they do with the   *)
(* arguments the programs pass.                                            *)
(***************************************************************************)
EXTENDS Integers, Sequences, FiniteSets, TLC

VARIABLES
    serverEnv,    \* GO_ENV of the server process
    collector,    \* "up" | "down": whether the collector endpoint answers
    spc,          \* position of the server's main goroutine
    initErr,      \* which InitProvider step failed ("none" if none)
    exitPath,     \* how the server process ended ("none" while it lives)
    listening,    \* "no" | "yes" | "failed" | "closed": the :8080 listener
    listened,     \* the server has been in the listening state
    interrupted,  \* os.Interrupt was delivered to the stop channel
    config,       \* the process-wide otel globals of the server
    configWrites, \* how often each global was set
    traceExp,     \* "none" | "running" | "shutdown": the OTLP trace exporter
    meterProv,    \* "none" | "running" | "shutdown": the meter provider
    shutdownLog,  \* sequence of steps the returned shutdown closure took
    bspQueue,     \* span ids buffered in the server's batch span processor
    handed,       \* span ids handed to the trace exporter while it ran
    spans,        \* the spans, by span id; state "absent" before Start
    reqs          \* the requests, by their number

vars == <<serverEnv, collector, spc, initErr, exitPath, listening,
          listened, interrupted, config, configWrites, traceExp, meterProv,
          shutdownLog, bspQueue, handed, spans, reqs>>

----------------------------------------------------------------------------
(* Bounds of the model *)

MaxReq == 2          \* requests the running server is sent (SpecServe)
LifeReq == 1         \* requests during one whole life of the server (Spec)
TraceIdBits == 3     \* width of a trace id; id 0 is the invalid trace id

(* Program constants *)

Envs == {"development", "production", ""}

Ids == {"123", "0123"}

----------------------------------------------------------------------------
(* Sampling: getSampler and the SDK samplers it selects *)

RECURSIVE Pow2(_)
Pow2(n) == IF n = 0 THEN 1 ELSE 2 * Pow2(n - 1)

TraceIds == 1 .. (Pow2(TraceIdBits) - 1)

\* A mutant of getSampler: production never samples.
getSampler_ProductionNever(ENV) ==
    IF ENV = "production" THEN "NeverSample" ELSE "AlwaysSample"

getSampler(ENV) ==
    CASE ENV = "development" -> "AlwaysSample"
      [] ENV = "production"  -> "ParentBasedRatio"
      [] OTHER               -> "AlwaysSample"

\* TraceIDRatioBased(0.5): x := low 8 bytes of the trace id >> 1;
\* sample iff x < 0.5 * 2^63.  Here with TraceIdBits-wide ids.
TraceIDRatioBased(tid) ==
    LET x     == (tid % Pow2(TraceIdBits)) \div 2
        bound == Pow2(TraceIdBits - 1) \div 2
    IN  x < bound

\* psc is the parent span context: [trace, span, sampled, remote], invalid
\* when its trace or span id is 0.
IsValid(sc) == sc.trace # 0 /\ sc.span # 0

NoSpanContext == [trace |-> 0, span |-> 0, sampled |-> FALSE, remote |-> FALSE]

ShouldSample(sampler, psc, tid) ==
    CASE sampler = "AlwaysSample" -> TRUE
      [] sampler = "ParentBasedRatio" ->
            IF IsValid(psc) THEN psc.sampled ELSE TraceIDRatioBased(tid)
      [] OTHER -> FALSE

----------------------------------------------------------------------------
(* Propagation: the composite TraceContext + Baggage text-map propagator.  *)
(* A traceparent header is the sequence of its four "-"-separated fields,  *)
(* a baggage header the sequence of its ","-separated key=value members.   *)

NoHeaders == [traceparent |-> <<>>, baggage |-> <<>>]

EmptyBaggage == [k \in {} |-> ""]

\* baggage.Parse: members are read left to right, a later member of the
\* same key replaces the earlier one.
RECURSIVE BaggageParse(_)
BaggageParse(h) ==
    IF h = <<>> THEN EmptyBaggage
    ELSE LET front == BaggageParse(SubSeq(h, 1, Len(h) - 1))
             m     == h[Len(h)]
         IN  [k \in (DOMAIN front) \cup {m[1]} |->
                 IF k = m[1] THEN m[2] ELSE front[k]]

\* Baggage.String: one key=value member per entry.
RECURSIVE BaggageString(_)
BaggageString(bag) ==
    IF DOMAIN bag = {} THEN <<>>
    ELSE LET k    == CHOOSE x \in DOMAIN bag : TRUE
             rest == [y \in (DOMAIN bag) \ {k} |-> bag[y]]
         IN  <<<<k, bag[k]>>>> \o BaggageString(rest)

\* A mutant of Member: the value of a member is not read.
Member_NoValue(bag, key) == ""

\* Baggage.Member(key).Value(): the empty string when the key is absent.
Member(bag, key) == IF key \in DOMAIN bag THEN bag[key] ELSE ""

\* TraceContext.Inject: nothing is written for an invalid span context.
TraceContextInject(sc) ==
    IF ~IsValid(sc) THEN <<>>
    ELSE <<"00", sc.trace, sc.span, IF sc.sampled THEN "01" ELSE "00">>

\* TraceContext.Extract: a malformed header yields no span context, and
\* the request then starts a new trace.
TraceContextExtract(h) ==
    IF Len(h) # 4 THEN NoSpanContext
    ELSE IF h[1] # "00" \/ h[2] \notin TraceIds \/ h[3] = 0 THEN NoSpanContext
    ELSE [trace |-> h[2], span |-> h[3], sampled |-> (h[4] = "01"),
          remote |-> TRUE]

\* A mutant of Extract: the sampled flag of the header is not read.
Extract_DropsFlag(hdr) ==
    [sc  |-> [TraceContextExtract(hdr.traceparent) EXCEPT !.sampled = FALSE],
     bag |-> BaggageParse(hdr.baggage)]

\* ctx is [sc, bag]: the span context of the current span and the baggage.
Inject(ctx) ==
    [traceparent |-> TraceContextInject(ctx.sc),
     baggage     |-> BaggageString(ctx.bag)]

Extract(hdr) ==
    [sc  |-> TraceContextExtract(hdr.traceparent),
     bag |-> BaggageParse(hdr.baggage)]

\* The baggage the client program attaches to its context.
ClientBaggage ==
    BaggageParse(<< <<"destination", "newyork">>, <<"transportation", "truck">> >>)

\* Headers of requests that do not come from the client program.
OtherHeaders ==
    { NoHeaders,
      [traceparent |-> <<"ff", 1, 1, "01">>,
       baggage |-> << <<"destination", "boston">>, <<"destination", "miami">> >>] }

----------------------------------------------------------------------------
(* Spans *)

Event(name, attrs) == [name |-> name, attrs |-> attrs]

\* tracer.Start: the trace id is the parent's, or a fresh one for a root;
\* a span the sampler drops is a non-recording span.
StartSpan(proc, req, name, sampler, psc, freshTid) ==
    LET tid     == IF IsValid(psc) THEN psc.trace ELSE freshTid
        sampled == ShouldSample(sampler, psc, tid)
    IN  [proc |-> proc, req |-> req, name |-> name, trace |-> tid,
         parent |-> IF IsValid(psc) THEN psc.span ELSE 0,
         remoteParent |-> IsValid(psc) /\ psc.remote,
         sampled |-> sampled,
         state |-> IF sampled THEN "open" ELSE "nonrecording",
         events |-> <<>>, status |-> "unset", endCalls |-> 0]

\* Span ids are random; the model gives the four spans of request r (the
\* client's root span, the transport's span, the server's request span and
\* the getPackage span) the ids 4r-3 .. 4r.
RootId(r) == 4 * r - 3
TransportId(r) == 4 * r - 2
RequestId(r) == 4 * r - 1
GetPackageId(r) == 4 * r

AbsentSpan ==
    [proc |-> "", req |-> 0, name |-> "", trace |-> 0, parent |-> 0,
     remoteParent |-> FALSE, sampled |-> FALSE, state |-> "absent",
     events |-> <<>>, status |-> "unset", endCalls |-> 0]

\* A mutant of SpanContextOf: the current span is kept in one place shared
\* by all goroutines, so it is the request span started last.
SpanContextOf_Shared(id) ==
    LET S == {i \in DOMAIN spans :
                 spans[i].proc = "server" /\ spans[i].name # "getPackage"}
        m == CHOOSE i \in S : \A j \in S : j <= i
    IN  [trace |-> spans[m].trace, span |-> m, sampled |-> spans[m].sampled,
         remote |-> FALSE]

SpanContextOf(id) ==
    [trace |-> spans[id].trace, span |-> id, sampled |-> spans[id].sampled,
     remote |-> FALSE]

\* span.AddEvent: a no-op unless the span is recording (sampled, not ended).
AddEvent(s, ev) ==
    IF s.state = "open" THEN [s EXCEPT !.events = Append(@, ev)] ELSE s

\* span.RecordError: an "exception" event; the status is left as it is.
RecordError(s, msg) ==
    AddEvent(s, Event("exception", << <<"exception.message", msg>> >>))

\* span.End: closes a recording span; a no-op on a closed or
\* non-recording one.
End(s) ==
    [s EXCEPT !.endCalls = @ + 1,
              !.state = IF @ = "open" THEN "closed" ELSE @]

\* The span processor's OnEnd hook for the span id about to be ended.
FirstEnd(id) == spans[id].state = "open"

----------------------------------------------------------------------------
(* Initial state: both processes not yet started *)

\* The contexts the two programs pass to the Shutdown calls of their drains:
\* the server's closure context.WithTimeout(ctx, time.Second), the
\* client's deferred function context.Background().
OtelShutdownCtx == "WithTimeout(1s)"

TpShutdownCtx == "Background"

\* The client's deferred tp.Shutdown before it is called.
NotCalled == [ctx |-> "", err |-> FALSE]

IdleReq ==
    [origin |-> "none", env |-> "", id |-> "", pc |-> "idle", hdr |-> NoHeaders,
     sent |-> [sc |-> NoSpanContext, bag |-> EmptyBaggage],
     rctx |-> [sc |-> NoSpanContext, bag |-> EmptyBaggage],
     cancelled |-> "", pr |-> "", reply |-> <<>>,
     cspan |-> 0, tspan |-> 0, sspan |-> 0, gspan |-> 0,
     tpShutdown |-> NotCalled]

\* The collector endpoint InitProvider reads once from
\* OTEL_EXPORTER_OTLP_ENDPOINT, "0.0.0.0:4317" when that is not set.
otelAgentAddr == "0.0.0.0:4317"

UnsetConfig ==
    [sampler |-> "unset", propagator |-> "unset",
     meterProvider |-> "unset", tracerProvider |-> "unset",
     endpoint |-> "unset"]

Init ==
    /\ serverEnv \in Envs
    /\ collector \in {"up", "down"}
    /\ spc = "start"
    /\ initErr = "none"
    /\ exitPath = "none"
    /\ listening = "no"
    /\ listened = FALSE
    /\ interrupted = FALSE
    /\ config = UnsetConfig
    /\ configWrites = [meterProvider |-> 0, propagator |-> 0, tracerProvider |-> 0,
                       endpoint |-> 0]
    /\ traceExp = "none"
    /\ meterProv = "none"
    /\ shutdownLog = <<>>
    /\ bspQueue = <<>>
    /\ handed = {}
    /\ spans = [i \in 1 .. 4 * LifeReq |-> AbsentSpan]
    /\ reqs = [r \in 1 .. LifeReq |-> IdleReq]

ServerAlive == spc # "exited"

QueueSet == {bspQueue[i] : i \in 1 .. Len(bspQueue)}

----------------------------------------------------------------------------
(* The server process: InitProvider *)

\* A mutant of handleErr: the error is logged and the caller goes on.
handleErr_LogOnly(err, next) == next

\* handleErr: log.Fatalf ends the process, deferred calls do not run.
handleErr(err, next) == IF err THEN "exited" ELSE next

InitPcs == {"start", "metric_exp", "trace_exp", "providers"}

\* resource.New and its handleErr.
InitResource(err) ==
    /\ spc = "start"
    /\ spc' = handleErr(err, "metric_exp")
    /\ initErr' = IF err THEN "resource" ELSE initErr
    /\ exitPath' = IF spc' = "exited" THEN "fatal_init" ELSE exitPath
    /\ UNCHANGED <<serverEnv, collector, listening, listened,
                   interrupted, config, configWrites, traceExp, meterProv,
                   shutdownLog, bspQueue, handed, spans, reqs>>

\* The endpoint lookup, otlpmetricgrpc.New, its handleErr,
\* NewMeterProvider, SetMeterProvider.
InitMetricExporter(err) ==
    /\ spc = "metric_exp"
    /\ spc' = handleErr(err, "trace_exp")
    /\ initErr' = IF err THEN "metric exporter" ELSE initErr
    /\ exitPath' = IF spc' = "exited" THEN "fatal_init" ELSE exitPath
    /\ IF spc' = "exited"
       THEN UNCHANGED <<meterProv, config, configWrites>>
       ELSE /\ meterProv' = "running"
            /\ config' = [config EXCEPT !.meterProvider = "sdk",
                                        !.endpoint = otelAgentAddr]
            /\ configWrites' = [configWrites EXCEPT !.meterProvider = @ + 1,
                                                    !.endpoint = @ + 1]
    /\ UNCHANGED <<serverEnv, collector, listening, listened,
                   interrupted, traceExp, shutdownLog, bspQueue, handed, spans, reqs>>

\* otlptrace.New over a client dialled with grpc.WithBlock under
\* context.Background(): it returns only once the collector answers.
InitTraceExporter(err) ==
    /\ spc = "trace_exp"
    /\ collector = "up"
    /\ spc' = handleErr(err, "providers")
    /\ initErr' = IF err THEN "trace exporter" ELSE initErr
    /\ exitPath' = IF spc' = "exited" THEN "fatal_init" ELSE exitPath
    /\ traceExp' = IF spc' = "exited" THEN traceExp ELSE "running"
    /\ UNCHANGED <<serverEnv, collector, listening, listened,
                   interrupted, config, configWrites, meterProv, shutdownLog,
                   bspQueue, handed, spans, reqs>>

\* NewBatchSpanProcessor, NewTracerProvider(WithSampler(getSampler())),
\* SetTextMapPropagator, SetTracerProvider; InitProvider returns, main
\* defers the closure, builds the router and the server, and runServer
\* starts the listener goroutine and waits on the stop channel.
InitTracerProvider ==
    /\ spc = "providers"
    /\ spc' = "waiting"
    /\ config' = [config EXCEPT !.sampler = getSampler(serverEnv),
                                !.propagator = "tracecontext,baggage",
                                !.tracerProvider = "sdk"]
    /\ configWrites' = [configWrites EXCEPT !.propagator = @ + 1,
                                            !.tracerProvider = @ + 1]
    /\ UNCHANGED <<serverEnv, collector, initErr, exitPath,
                   listening, listened, interrupted, traceExp, meterProv,
                   shutdownLog, bspQueue, handed, spans, reqs>>

----------------------------------------------------------------------------
(* The server process: runServer, the deferred shutdown closure, signals *)

HandlerPcs == {"h_mw", "gp_open", "gp_ret", "h_replied"}

ActiveReqs == {r \in DOMAIN reqs : reqs[r].pc \in HandlerPcs}

\* The listener goroutine: server.ListenAndServe before Shutdown was called.
ListenAndServe(ok) ==
    /\ spc \in {"waiting", "shutdown"}
    /\ listening = "no"
    /\ listening' = IF ok THEN "yes" ELSE "failed"
    /\ listened' = ok
    /\ UNCHANGED <<serverEnv, collector, spc, initErr, exitPath,
                   interrupted, config, configWrites, traceExp, meterProv,
                   shutdownLog, bspQueue, handed, spans, reqs>>

\* The listener goroutine scheduled after Shutdown: ErrServerClosed.
ListenAfterShutdown ==
    /\ spc \in {"draining", "otel_trace", "otel_meter"}
    /\ listening = "no"
    /\ listening' = "closed"
    /\ UNCHANGED <<serverEnv, collector, spc, initErr, exitPath,
                   listened, interrupted, config, configWrites, traceExp,
                   meterProv, shutdownLog, bspQueue, handed, spans, reqs>>

\* A mutant of Interrupt: runServer goes on to Shutdown without a signal
\* on the stop channel.
Interrupt_NoWait ==
    /\ spc = "waiting"
    /\ spc' = "shutdown"
    /\ UNCHANGED <<serverEnv, collector, initErr, exitPath, listening,
                   listened, interrupted, config, configWrites, traceExp,
                   meterProv, shutdownLog, bspQueue, handed, spans, reqs>>

\* os.Interrupt arrives on the stop channel and main wakes up.
Interrupt ==
    /\ spc = "waiting"
    /\ interrupted' = TRUE
    /\ spc' = "shutdown"
    /\ UNCHANGED <<serverEnv, collector, initErr, exitPath,
                   listening, listened, config, configWrites, traceExp,
                   meterProv, shutdownLog, bspQueue, handed, spans, reqs>>

\* Any signal nobody is notified of ends the process at once: every signal
\* other than os.Interrupt, and os.Interrupt before signal.Notify.
Terminate(sig) ==
    /\ ServerAlive
    /\ sig = "interrupt" => spc \in InitPcs
    /\ spc' = "exited"
    /\ exitPath' = "signal"
    /\ bspQueue' = <<>>
    /\ UNCHANGED <<serverEnv, collector, initErr, listening,
                   listened, interrupted, config, configWrites, traceExp,
                   meterProv, shutdownLog, handed, spans, reqs>>

\* server.Shutdown(ctx) is called: the listener is closed first.
ServerShutdown ==
    /\ spc = "shutdown"
    /\ spc' = "draining"
    /\ listening' = IF listening = "yes" THEN "closed" ELSE listening
    /\ UNCHANGED <<serverEnv, collector, initErr, exitPath, listened,
                   interrupted, config, configWrites, traceExp, meterProv,
                   shutdownLog, bspQueue, handed, spans, reqs>>

\* main after runServer: log.Fatalf on an error (the process exits, the
\* deferred closure does not run), the deferred closure on nil.
AfterRunServer(err) == IF err THEN "exited" ELSE "otel_trace"

\* server.Shutdown returns: nil once no request is in flight, the
\* context's error when the 5 s run out first, or the listener's close
\* error.
ShutdownReturn(err) ==
    /\ spc = "draining"
    /\ IF err THEN ActiveReqs # {} \/ listened ELSE ActiveReqs = {}
    /\ spc' = AfterRunServer(err)
    /\ exitPath' = IF spc' = "exited" THEN "fatal_run" ELSE exitPath
    /\ bspQueue' = IF spc' = "exited" THEN <<>> ELSE bspQueue
    /\ UNCHANGED <<serverEnv, collector, initErr, listening,
                   listened, interrupted, config, configWrites, traceExp,
                   meterProv, shutdownLog, handed, spans, reqs>>

\* What the closure does with the error of a Shutdown call.
OnShutdownErr(err) == IF err THEN "otel.Handle" ELSE "none"

\* A mutant of OtelShutdownTrace: the error is given to handleErr.
OtelShutdownTrace_Fatal(err) ==
    /\ spc = "otel_trace"
    /\ spc' = handleErr(err, "otel_meter")
    /\ exitPath' = IF spc' = "exited" THEN "fatal_run" ELSE exitPath
    /\ traceExp' = "shutdown"
    /\ shutdownLog' = Append(shutdownLog,
           [step |-> "traceExp.Shutdown", ctx |-> OtelShutdownCtx, err |-> err,
            onErr |-> "handleErr"])
    /\ UNCHANGED <<serverEnv, collector, initErr, listening, listened,
                   interrupted, config, configWrites, meterProv, bspQueue,
                   handed, spans, reqs>>

\* The closure InitProvider returned, first half: traceExp.Shutdown(cxt);
\* an error goes to otel.Handle.
OtelShutdownTrace(err) ==
    /\ spc = "otel_trace"
    /\ spc' = "otel_meter"
    /\ traceExp' = "shutdown"
    /\ shutdownLog' = Append(shutdownLog,
           [step |-> "traceExp.Shutdown", ctx |-> OtelShutdownCtx, err |-> err,
            onErr |-> OnShutdownErr(err)])
    /\ UNCHANGED <<serverEnv, collector, initErr, exitPath,
                   listening, listened, interrupted, config, configWrites,
                   meterProv, bspQueue, handed, spans, reqs>>

\* A mutant of OtelShutdownMeter: the closure also takes the meter provider
\* out of the otel globals.
OtelShutdownMeter_Unsets(err) ==
    /\ spc = "otel_meter"
    /\ spc' = "exited"
    /\ exitPath' = "return"
    /\ meterProv' = "shutdown"
    /\ config' = [config EXCEPT !.meterProvider = "noop"]
    /\ configWrites' = [configWrites EXCEPT !.meterProvider = @ + 1]
    /\ shutdownLog' = Append(shutdownLog,
           [step |-> "meterProvider.Shutdown", ctx |-> OtelShutdownCtx,
            err |-> err, onErr |-> OnShutdownErr(err)])
    /\ bspQueue' = <<>>
    /\ UNCHANGED <<serverEnv, collector, initErr, listening, listened,
                   interrupted, traceExp, handed, spans, reqs>>

\* Second half: meterProvider.Shutdown(cxt); then main returns and the
\* process exits; what the span processor still buffers is gone.
OtelShutdownMeter(err) ==
    /\ spc = "otel_meter"
    /\ spc' = "exited"
    /\ exitPath' = "return"
    /\ meterProv' = "shutdown"
    /\ shutdownLog' = Append(shutdownLog,
           [step |-> "meterProvider.Shutdown", ctx |-> OtelShutdownCtx,
            err |-> err, onErr |-> OnShutdownErr(err)])
    /\ bspQueue' = <<>>
    /\ UNCHANGED <<serverEnv, collector, initErr, listening,
                   listened, interrupted, config, configWrites, traceExp,
                   handed, spans, reqs>>

\* The batch span processor's timer: the buffered spans are exported.
\* An exporter that was shut down takes nothing.
BspExport ==
    /\ ServerAlive
    /\ bspQueue # <<>>
    /\ handed' = IF traceExp = "running" THEN handed \cup QueueSet ELSE handed
    /\ bspQueue' = <<>>
    /\ UNCHANGED <<serverEnv, collector, spc, initErr, exitPath,
                   listening, listened, interrupted, config, configWrites,
                   traceExp, meterProv, shutdownLog, spans, reqs>>

CollectorFails ==
    /\ collector = "up"
    /\ collector' = "down"
    /\ UNCHANGED <<serverEnv, spc, initErr, exitPath, listening,
                   listened, interrupted, config, configWrites, traceExp,
                   meterProv, shutdownLog, bspQueue, handed, spans, reqs>>

CollectorRecovers ==
    /\ collector = "down"
    /\ collector' = "up"
    /\ UNCHANGED <<serverEnv, spc, initErr, exitPath, listening,
                   listened, interrupted, config, configWrites, traceExp,
                   meterProv, shutdownLog, bspQueue, handed, spans, reqs>>

----------------------------------------------------------------------------
(* Requests: the client program, other HTTP clients, the server's handler *)

Started(r) == reqs[r].pc # "idle"

\* Trace ids are random.  Each request starts one trace; the model gives
\* request r the r-th trace id the ratio sampler keeps or the r-th one it
\* drops.
FreshTraceId(r, keep) ==
    LET C == {t \in TraceIds : TraceIDRatioBased(t) = keep}
    IN  CHOOSE t \in C : Cardinality({u \in C : u < t}) = r - 1

\* The sampler draws on the trace id only when it decides on a root span
\* by ratio; elsewhere one id stands for all of them.
FreshFor(r, sampler, psc) ==
    IF IsValid(psc) THEN {0}
    ELSE IF sampler = "ParentBasedRatio"
         THEN {FreshTraceId(r, TRUE), FreshTraceId(r, FALSE)}
         ELSE {FreshTraceId(r, TRUE)}

\* The root span of the client program and its first event.
ClientRoot(r, env, tid) ==
    AddEvent(StartSpan("client", r,
                       "Otel propagation example: sending package from boston",
                       getSampler(env), NoSpanContext, tid),
             Event("Sending request...", <<>>))

\* The span the otelhttp transport starts as a child of the root span
\* (whose span id is rootId).
TransportSpan(r, env, root, rootId) ==
    StartSpan("client", r, "HTTP GET", getSampler(env),
              [trace |-> root.trace, span |-> rootId,
               sampled |-> root.sampled, remote |-> FALSE], 0)

\* The client program up to client.Do: initTracer (its exporter is dialled
\* with grpc.WithBlock too), the baggage, the root span and its first
\* event; then client.Do through the otelhttp transport, which starts a
\* child span and injects the context carrying it into the headers.
ClientSend(r, env, id, tid) ==
    /\ reqs[r].pc = "idle"
    /\ r > 1 => Started(r - 1)
    /\ collector = "up"
    /\ ServerAlive /\ listening = "yes"
    /\ tid \in FreshFor(r, getSampler(env), NoSpanContext)
    /\ LET root  == ClientRoot(r, env, tid)
           tspan == TransportSpan(r, env, root, RootId(r))
           ctx   == [sc  |-> [trace |-> tspan.trace, span |-> TransportId(r),
                              sampled |-> tspan.sampled, remote |-> FALSE],
                     bag |-> ClientBaggage]
       IN  /\ spans' = [spans EXCEPT ![RootId(r)] = root,
                                     ![TransportId(r)] = tspan]
           /\ reqs' = [reqs EXCEPT ![r].origin = "client", ![r].env = env,
                                   ![r].id = id, ![r].pc = "sent",
                                   ![r].cspan = RootId(r),
                                   ![r].tspan = TransportId(r),
                                   ![r].sent = ctx, ![r].hdr = Inject(ctx)]
    /\ UNCHANGED <<serverEnv, collector, spc, initErr, exitPath,
                   listening, listened, interrupted, config, configWrites,
                   traceExp, meterProv, shutdownLog, bspQueue, handed>>

\* The same with nobody listening: client.Do fails, the transport ends
\* its span, the client panics and the deferred span.End() of the root
\* span runs while the panic unwinds.
ClientRefused(r, env, id, tid) ==
    /\ reqs[r].pc = "idle"
    /\ r > 1 => Started(r - 1)
    /\ collector = "up"
    /\ ~(ServerAlive /\ listening = "yes")
    /\ tid \in FreshFor(r, getSampler(env), NoSpanContext)
    /\ LET root  == ClientRoot(r, env, tid)
           tspan == TransportSpan(r, env, root, RootId(r))
       IN  /\ spans' = [spans EXCEPT ![RootId(r)] = End(root),
                                     ![TransportId(r)] = End(tspan)]
           /\ reqs' = [reqs EXCEPT ![r].origin = "client", ![r].env = env,
                                   ![r].id = id, ![r].pc = "c_panicked",
                                   ![r].cspan = RootId(r),
                                   ![r].tspan = TransportId(r)]
    /\ UNCHANGED <<serverEnv, collector, spc, initErr, exitPath,
                   listening, listened, interrupted, config, configWrites,
                   traceExp, meterProv, shutdownLog, bspQueue, handed>>

\* A request of some other HTTP client, with the headers it chooses.
OtherSend(r, id, hdr) ==
    /\ reqs[r].pc = "idle"
    /\ r > 1 => Started(r - 1)
    /\ ServerAlive /\ listening = "yes"
    /\ reqs' = [reqs EXCEPT ![r].origin = "other", ![r].id = id,
                            ![r].pc = "sent", ![r].hdr = hdr]
    /\ UNCHANGED <<serverEnv, collector, spc, initErr, exitPath,
                   listening, listened, interrupted, config, configWrites,
                   traceExp, meterProv, shutdownLog, bspQueue, handed,
                   spans>>

\* The request cannot be completed: nobody listens, the listener was closed
\* before the request was accepted, or the server process is gone.
Unreachable(r) ==
    \/ reqs[r].pc = "sent" /\ spc \notin {"waiting", "shutdown"}
    \/ reqs[r].pc \in HandlerPcs \cup {"h_done"} /\ ~ServerAlive

\* client.Do fails after the request was sent: the same panic path.
ClientDoFails(r) ==
    /\ reqs[r].origin = "client"
    /\ Unreachable(r)
    /\ LET t  == reqs[r].tspan
           c  == reqs[r].cspan
           s1 == [spans EXCEPT ![t] = End(spans[t])]
       IN  spans' = [s1 EXCEPT ![c] = End(s1[c])]
    /\ reqs' = [reqs EXCEPT ![r].pc = "c_panicked"]
    /\ UNCHANGED <<serverEnv, collector, spc, initErr, exitPath,
                   listening, listened, interrupted, config, configWrites,
                   traceExp, meterProv, shutdownLog, bspQueue, handed>>

\* The otelmux middleware: the context is extracted from the headers with
\* the global propagator and the request span is started in it.
ServerAccept(r, tid) ==
    /\ reqs[r].pc = "sent"
    /\ spc \in {"waiting", "shutdown"} /\ listening = "yes"
    /\ LET rctx == IF config.propagator = "tracecontext,baggage"
                   THEN Extract(reqs[r].hdr)
                   ELSE [sc |-> NoSpanContext, bag |-> EmptyBaggage]
       IN  /\ tid \in FreshFor(r, config.sampler, rctx.sc)
           /\ spans' = [spans EXCEPT ![RequestId(r)] =
                  StartSpan("server", r, "GET /packages/{id:[0-9]+}",
                            config.sampler, rctx.sc, tid)]
           /\ reqs' = [reqs EXCEPT ![r].pc = "h_mw", ![r].rctx = rctx,
                                   ![r].sspan = RequestId(r)]
    /\ UNCHANGED <<serverEnv, collector, spc, initErr, exitPath,
                   listening, listened, interrupted, config, configWrites,
                   traceExp, meterProv, shutdownLog, bspQueue, handed>>

\* The client goes away or the request's deadline passes while the handler
\* runs: r.Context() is cancelled.  Neither the handler nor getPackage
\* looks at ctx.Done() or ctx.Err(); recorded is where it happened.
Cancel(r) ==
    /\ reqs[r].pc \in HandlerPcs
    /\ ServerAlive
    /\ reqs[r].cancelled = ""
    /\ reqs' = [reqs EXCEPT ![r].cancelled =
                    IF reqs[r].pc = "gp_open" THEN "in getPackage" ELSE "in handler"]
    /\ UNCHANGED <<serverEnv, collector, spc, initErr, exitPath,
                   listening, listened, interrupted, config, configWrites,
                   traceExp, meterProv, shutdownLog, bspQueue, handed,
                   spans>>

----------------------------------------------------------------------------
(* The handler of /packages/{id} and getPackage *)

\* OnEnd of the server's batch span processor: a span that End closes and
\* that is sampled is put on the queue.
Enqueue(id) ==
    IF FirstEnd(id) /\ spans[id].sampled THEN Append(bspQueue, id) ELSE bspQueue

\* A mutant of getPackageResult: the id is compared as a number.
getPackageResult_Numeric(id) ==
    IF id \in {"123", "0123"} THEN "found package" ELSE "unknown"

\* The value getPackage returns.
getPackageResult(id) == IF id = "123" THEN "found package" ELSE "unknown"

\* A mutant of getPackageRecord: the error is recorded on the found path
\* as well.
getPackageRecord_Both(s, id) ==
    LET s1 == AddEvent(s, Event("getPackage", << <<"package", id>> >>))
        s2 == IF id = "123" THEN AddEvent(s1, Event("found package", <<>>)) ELSE s1
    IN  RecordError(s2, "package not found")

\* What getPackage records on its span between Start and the return.
getPackageRecord(s, id) ==
    LET s1 == AddEvent(s, Event("getPackage", << <<"package", id>> >>))
    IN  IF id = "123"
        THEN AddEvent(s1, Event("found package", <<>>))
        ELSE RecordError(s1, "package not found")

\* A mutant of Reply: the handler answers differently while the collector
\* does not answer.
Reply_CollectorDown(pr, id) ==
    IF collector = "down" THEN <<"telemetry unavailable\n">>
    ELSE <<"package is ", pr, " (id ", id, ")\n">>

\* fmt.Sprintf("package is %s (id %s)\n", pr, id), as its pieces.
Reply(pr, id) == <<"package is ", pr, " (id ", id, ")\n">>

\* getPackage, first statement: the span is started as a child of the
\* span in ctx, with the tracer provider of that span.
GetPackageStart(r) ==
    /\ reqs[r].pc = "h_mw"
    /\ ServerAlive
    /\ spans' = [spans EXCEPT ![GetPackageId(r)] =
                   StartSpan("server", r, "getPackage", config.sampler,
                             SpanContextOf(reqs[r].sspan), 0)]
    /\ reqs' = [reqs EXCEPT ![r].pc = "gp_open", ![r].gspan = GetPackageId(r)]
    /\ UNCHANGED <<serverEnv, collector, spc, initErr, exitPath,
                   listening, listened, interrupted, config, configWrites,
                   traceExp, meterProv, shutdownLog, bspQueue, handed>>

\* A mutant of DeferredEnd: the span is ended on the found path only.
DeferredEnd_FoundOnly(s, pr) == IF pr = "found package" THEN End(s) ELSE s

\* A mutant of DeferredEnd: End is called in the body and deferred too.
DeferredEnd_Twice(s, pr) == End(End(s))

\* A mutant of DeferredEnd: getPackage returns without ending its span.
DeferredEnd_Never(s, pr) == s

\* The deferred span.End() of getPackage: it runs on both return paths.
DeferredEnd(s, pr) == End(s)

\* getPackage, the rest: the events, the result, and on return the
\* deferred span.End().
GetPackageReturn(r) ==
    /\ reqs[r].pc = "gp_open"
    /\ ServerAlive
    /\ LET g  == reqs[r].gspan
           pr == getPackageResult(reqs[r].id)
           s2 == DeferredEnd(getPackageRecord(spans[g], reqs[r].id), pr)
       IN  /\ spans' = [spans EXCEPT ![g] = s2]
           /\ bspQueue' = IF s2.state = "closed" THEN Enqueue(g) ELSE bspQueue
           /\ reqs' = [reqs EXCEPT ![r].pc = "gp_ret", ![r].pr = pr]
    /\ UNCHANGED <<serverEnv, collector, spc, initErr, exitPath,
                   listening, listened, interrupted, config, configWrites,
                   traceExp, meterProv, shutdownLog, handed>>

\* The handler after getPackage: the baggage of the request's context, the
\* "Obtaining package" event on the request span, the reply.
HandlerReply(r) ==
    /\ reqs[r].pc = "gp_ret"
    /\ ServerAlive
    /\ LET sp  == reqs[r].sspan
           bag == reqs[r].rctx.bag
           ev  == Event("Obtaining package",
                        << <<"destination", Member(bag, "destination")>>,
                           <<"transportation", Member(bag, "transportation")>> >>)
       IN  spans' = [spans EXCEPT ![sp] = AddEvent(spans[sp], ev)]
    /\ reqs' = [reqs EXCEPT ![r].pc = "h_replied",
                            ![r].reply = Reply(reqs[r].pr, reqs[r].id)]
    /\ UNCHANGED <<serverEnv, collector, spc, initErr, exitPath,
                   listening, listened, interrupted, config, configWrites,
                   traceExp, meterProv, shutdownLog, bspQueue, handed>>

\* The handler has returned: the middleware ends the request span.
MiddlewareEnd(r) ==
    /\ reqs[r].pc = "h_replied"
    /\ ServerAlive
    /\ LET sp == reqs[r].sspan
       IN  /\ spans' = [spans EXCEPT ![sp] = End(spans[sp])]
           /\ bspQueue' = Enqueue(sp)
    /\ reqs' = [reqs EXCEPT ![r].pc = "h_done"]
    /\ UNCHANGED <<serverEnv, collector, spc, initErr, exitPath,
                   listening, listened, interrupted, config, configWrites,
                   traceExp, meterProv, shutdownLog, handed>>

\* The client program reads the response: the transport span ends, the
\* root span gets its second event and the deferred span.End() runs.
ClientReceive(r) ==
    /\ reqs[r].pc = "h_done"
    /\ reqs[r].origin = "client"
    /\ LET t  == reqs[r].tspan
           c  == reqs[r].cspan
           s1 == [spans EXCEPT ![t] = End(spans[t])]
       IN  spans' = [s1 EXCEPT ![c] = End(AddEvent(s1[c], Event("Request received", <<>>)))]
    /\ reqs' = [reqs EXCEPT ![r].pc = "c_done"]
    /\ UNCHANGED <<serverEnv, collector, spc, initErr, exitPath,
                   listening, listened, interrupted, config, configWrites,
                   traceExp, meterProv, shutdownLog, bspQueue, handed>>

\* The client's main ends, by return or by the panic: the deferred function
\* calls tp.Shutdown with TpShutdownCtx, which flushes the client's batch
\* span processor to the collector; its error goes to HandleErr.
ClientTpShutdown(r, err) ==
    /\ reqs[r].origin = "client"
    /\ reqs[r].pc \in {"c_done", "c_panicked"}
    /\ reqs[r].tpShutdown = NotCalled
    /\ err => collector = "down"
    /\ reqs' = [reqs EXCEPT ![r].tpShutdown = [ctx |-> TpShutdownCtx, err |-> err]]
    /\ UNCHANGED <<serverEnv, collector, spc, initErr, exitPath,
                   listening, listened, interrupted, config, configWrites,
                   traceExp, meterProv, shutdownLog, bspQueue, handed,
                   spans>>

----------------------------------------------------------------------------

Next ==
    \/ \E err \in BOOLEAN : InitResource(err)
    \/ \E err \in BOOLEAN : InitMetricExporter(err)
    \/ \E err \in BOOLEAN : InitTraceExporter(err)
    \/ InitTracerProvider
    \/ \E ok \in BOOLEAN : ListenAndServe(ok)
    \/ ListenAfterShutdown
    \/ Interrupt
    \/ \E sig \in {"interrupt", "terminate"} : Terminate(sig)
    \/ ServerShutdown
    \/ \E err \in BOOLEAN : ShutdownReturn(err)
    \/ \E err \in BOOLEAN : OtelShutdownTrace(err)
    \/ \E err \in BOOLEAN : OtelShutdownMeter(err)
    \/ BspExport
    \/ CollectorFails
    \/ CollectorRecovers
    \/ \E r \in DOMAIN reqs, env \in Envs, id \in Ids, tid \in TraceIds :
          ClientSend(r, env, id, tid)
    \/ \E r \in DOMAIN reqs, env \in Envs, id \in Ids, tid \in TraceIds :
          ClientRefused(r, env, id, tid)
    \/ \E r \in DOMAIN reqs, id \in Ids, hdr \in OtherHeaders : OtherSend(r, id, hdr)
    \/ \E r \in DOMAIN reqs : ClientDoFails(r)
    \/ \E r \in DOMAIN reqs, tid \in TraceIds \cup {0} : ServerAccept(r, tid)
    \/ \E r \in DOMAIN reqs : Cancel(r)
    \/ \E r \in DOMAIN reqs : GetPackageStart(r)
    \/ \E r \in DOMAIN reqs : GetPackageReturn(r)
    \/ \E r \in DOMAIN reqs : HandlerReply(r)
    \/ \E r \in DOMAIN reqs : MiddlewareEnd(r)
    \/ \E r \in DOMAIN reqs : ClientReceive(r)
    \/ \E r \in DOMAIN reqs, err \in BOOLEAN : ClientTpShutdown(r, err)

Spec == Init /\ [][Next]_vars

\* The same with the progress the code guarantees once the interrupt has
\* arrived: runServer goes on to call server.Shutdown, and server.Shutdown
\* returns, at the latest when the 5 s of its context are over.
SpecLive ==
    /\ Init /\ [][Next]_vars
    /\ WF_vars(ServerShutdown)
    /\ WF_vars(\E err \in BOOLEAN : ShutdownReturn(err))

----------------------------------------------------------------------------
(* The server once it is up: InitProvider has returned, the listener       *)
(* listens, main waits for the interrupt; MaxReq requests arrive and are   *)
(* handled concurrently.  The export timer and the end of the process are  *)
(* the subject of Spec.                                                    *)

InitServe ==
    /\ serverEnv \in Envs
    /\ collector = "up"
    /\ spc = "waiting"
    /\ initErr = "none"
    /\ exitPath = "none"
    /\ listening = "yes"
    /\ listened = TRUE
    /\ interrupted = FALSE
    /\ config = [sampler |-> getSampler(serverEnv),
                 propagator |-> "tracecontext,baggage",
                 meterProvider |-> "sdk", tracerProvider |-> "sdk",
                 endpoint |-> otelAgentAddr]
    /\ configWrites = [meterProvider |-> 1, propagator |-> 1, tracerProvider |-> 1,
                       endpoint |-> 1]
    /\ traceExp = "running"
    /\ meterProv = "running"
    /\ shutdownLog = <<>>
    /\ bspQueue = <<>>
    /\ handed = {}
    /\ spans = [i \in 1 .. 4 * MaxReq |-> AbsentSpan]
    /\ reqs = [r \in 1 .. MaxReq |-> IdleReq]

NextServe ==
    \/ CollectorFails
    \/ CollectorRecovers
    \/ \E r \in DOMAIN reqs, env \in Envs, id \in Ids, tid \in TraceIds :
          ClientSend(r, env, id, tid)
    \/ \E r \in DOMAIN reqs, id \in Ids, hdr \in OtherHeaders : OtherSend(r, id, hdr)
    \/ \E r \in DOMAIN reqs, tid \in TraceIds \cup {0} : ServerAccept(r, tid)
    \/ \E r \in DOMAIN reqs : Cancel(r)
    \/ \E r \in DOMAIN reqs : GetPackageStart(r)
    \/ \E r \in DOMAIN reqs : GetPackageReturn(r)
    \/ \E r \in DOMAIN reqs : HandlerReply(r)
    \/ \E r \in DOMAIN reqs : MiddlewareEnd(r)
    \/ \E r \in DOMAIN reqs : ClientReceive(r)

SpecServe == InitServe /\ [][NextServe]_vars

----------------------------------------------------------------------------
(* Claims about the end of the server process *)

InitProviderReturned == config.tracerProvider = "sdk"

OtelShutdownRan == Len(shutdownLog) = 2

\* C1 (as claimed): on every exit path of the server process after
\* InitProvider has returned -- return after a successful Shutdown, a
\* Shutdown error or timeout, a signal other than os.Interrupt -- the
\* deferred otelShutdown has run before the process exits.
C1_ShutdownOnEveryExit ==
    (spc = "exited" /\ InitProviderReturned) => OtelShutdownRan

ClosedServerSpans ==
    {i \in DOMAIN spans : spans[i].proc = "server" /\ spans[i].state = "closed"}

\* C2 (as claimed): when the shutdown closure has shut the trace exporter
\* down with the collector reachable, every span that was ended before and
\* was buffered in the batch span processor has been handed to the
\* exporter.
C2_BufferedSpansHanded ==
    (traceExp = "shutdown" /\ collector = "up") => ClosedServerSpans \subseteq handed

\* C3 (as claimed): a failure in InitProvider does not keep the server
\* from listening: a process that ended after such a failure has listened.
C3_InitFailureStillServes ==
    (initErr # "none" /\ spc = "exited") => listened

\* C3 (amended): a failure in InitProvider does keep the server from
\* listening: after a failed step the process has ended through log.Fatalf
\* without ever listening, and as long as InitProvider has not returned
\* (for one because the collector does not answer the blocking dial) the
\* server does not listen.
C3_InitFailureEndsProcess ==
    /\ [](initErr # "none" =>
            (spc = "exited" /\ exitPath = "fatal_init" /\ ~listened /\ listening = "no"))
    /\ [](spc \in InitPcs => (listening = "no" /\ ~listened))
    /\ [](listened => (InitProviderReturned /\ traceExp # "none"))
    /\ [][(spc = "trace_exp" /\ collector = "down") => spc' \in {"trace_exp", "exited"}]_vars

C3_Witness ==
    /\ initErr = "trace exporter"
    /\ spc = "exited"
    /\ ~listened

----------------------------------------------------------------------------
(* Claims about the spans of one request *)

Present == {i \in DOMAIN spans : spans[i].state # "absent"}

GetPackageReturned(r) == reqs[r].pr # ""

ClientFuncReturned(r) == reqs[r].pc \in {"c_done", "c_panicked"}

HandlerReturned(r) == reqs[r].pc \in {"h_done", "c_done"}

EndedOnceOnReturn ==
    /\ \A i \in DOMAIN spans :
          /\ spans[i].endCalls <= 1
          /\ spans[i].state = "closed" => spans[i].endCalls = 1
          /\ spans[i].state = "open" => spans[i].endCalls = 0
    /\ \A r \in DOMAIN reqs :
          /\ reqs[r].gspan # 0 =>
                /\ GetPackageReturned(r) <=> spans[reqs[r].gspan].endCalls = 1
                /\ GetPackageReturned(r) => spans[reqs[r].gspan].state # "open"
          /\ reqs[r].cspan # 0 =>
                /\ ClientFuncReturned(r) <=> spans[reqs[r].cspan].endCalls = 1
                /\ ClientFuncReturned(r) => spans[reqs[r].cspan].state # "open"

\* C4: the getPackage span and the client's root span are ended exactly
\* once on every return path of the function that started them (for the
\* client that includes the panic after a failed client.Do), End is never
\* applied twice, and a closed span is never open again.
C4_SpansEndedExactlyOnce ==
    /\ []EndedOnceOnReturn
    /\ [][\A i \in DOMAIN spans :
             spans[i].state = "closed" => spans'[i].state = "closed"]_vars

C4_Witness ==
    \E r \in DOMAIN reqs :
        /\ reqs[r].pc = "c_panicked"
        /\ reqs[r].pr = "unknown"
        /\ spans[reqs[r].gspan].state = "closed"
        /\ spans[reqs[r].cspan].state = "closed"

\* C5: for every request the client program sends, the context the server
\* extracts from the headers has the trace id, the sampled flag and the
\* baggage of the client's context at send time, and the server's request
\* span has the span of that context (the transport's span, a child of the
\* client's root span) as its remote parent.
C5_PropagationRoundTrip ==
    \A r \in DOMAIN reqs :
        (reqs[r].origin = "client" /\ reqs[r].sspan # 0) =>
            LET q == reqs[r]
            IN  /\ q.sent.sc.span = q.tspan
                /\ q.sent.sc.trace = spans[q.tspan].trace
                /\ q.sent.sc.sampled = spans[q.tspan].sampled
                /\ q.rctx.sc.trace = q.sent.sc.trace
                /\ q.rctx.sc.sampled = q.sent.sc.sampled
                /\ q.rctx.bag = q.sent.bag
                /\ spans[q.sspan].trace = spans[q.cspan].trace
                /\ spans[q.sspan].parent = q.tspan
                /\ spans[q.sspan].remoteParent
                /\ spans[q.tspan].parent = q.cspan

C5_Witness ==
    \E r \in DOMAIN reqs :
        /\ reqs[r].origin = "client"
        /\ reqs[r].pc = "h_mw"
        /\ reqs[r].rctx.sc.sampled
        /\ DOMAIN reqs[r].rctx.bag = {"destination", "transportation"}
        /\ reqs[r].rctx.bag["destination"] = "newyork"

\* C6 (as claimed): within one trace either all spans are sampled or none
\* is, whatever GO_ENV the client and the server run with.
C6_ConsistentSampling ==
    \A i, j \in Present :
        spans[i].trace = spans[j].trace => spans[i].sampled = spans[j].sampled

\* The combination in which the two processes decide differently: the
\* client's sampler decides by ratio, the server's samples always and does
\* not look at the decision the client made.
MixedSamplers(r) ==
    /\ reqs[r].origin = "client"
    /\ getSampler(reqs[r].env) = "ParentBasedRatio"
    /\ config.sampler = "AlwaysSample"

\* C6 (amended): within one trace either all spans are sampled or none
\* is, unless the client's sampler is the parent-based ratio sampler and
\* the server's is the always-sample one; a server whose sampler is the
\* always-sample one samples every span it starts.
C6_ConsistentUnlessMixed ==
    /\ \A i, j \in Present :
          (spans[i].trace = spans[j].trace /\ ~MixedSamplers(spans[i].req))
              => spans[i].sampled = spans[j].sampled
    /\ config.sampler = "AlwaysSample" =>
          \A i \in Present : spans[i].proc = "server" => spans[i].sampled

C6_Witness ==
    \E r \in DOMAIN reqs :
        /\ reqs[r].origin = "client"
        /\ reqs[r].env = "production"
        /\ serverEnv = "production"
        /\ reqs[r].gspan # 0
        /\ ~spans[reqs[r].cspan].sampled
        /\ ~spans[reqs[r].gspan].sampled

\* C7 (as claimed): getSampler selects the always-sample policy for
\* GO_ENV=development and the parent-based ratio policy for every other
\* value, unset included.
C7_SamplerByEnv ==
    config.sampler # "unset" =>
        config.sampler = IF serverEnv = "development"
                         THEN "AlwaysSample" ELSE "ParentBasedRatio"

\* C8 (as claimed): a request that was cancelled while a span it owns was
\* open has that span closed with status error("cancelled") when the
\* handler has returned.
C8_CancelledSpansError ==
    \A r \in DOMAIN reqs :
        (reqs[r].cancelled # "" /\ HandlerReturned(r)) =>
            /\ spans[reqs[r].sspan].sampled =>
                  /\ spans[reqs[r].sspan].state = "closed"
                  /\ spans[reqs[r].sspan].status = "error(cancelled)"
            /\ (reqs[r].cancelled = "in getPackage" /\ spans[reqs[r].gspan].sampled) =>
                  /\ spans[reqs[r].gspan].state = "closed"
                  /\ spans[reqs[r].gspan].status = "error(cancelled)"

\* C8 (amended): a cancelled request is handled like any other: the
\* getPackage span is ended once when getPackage returns and the request
\* span when the handler has returned, so no span of a finished request
\* stays open, and the status of the spans is left unset.
C8_CancelledSpansClosedUnset ==
    \A r \in DOMAIN reqs :
        reqs[r].cancelled # "" =>
            /\ GetPackageReturned(r) =>
                  /\ spans[reqs[r].gspan].state # "open"
                  /\ spans[reqs[r].gspan].endCalls = 1
            /\ HandlerReturned(r) =>
                  /\ spans[reqs[r].sspan].state # "open"
                  /\ spans[reqs[r].sspan].endCalls = 1
            /\ \A i \in Present : spans[i].req = r => spans[i].status = "unset"

C8_Witness ==
    \E r \in DOMAIN reqs :
        /\ reqs[r].cancelled = "in getPackage"
        /\ reqs[r].pc = "h_done"
        /\ reqs[r].id = "0123"
        /\ spans[reqs[r].gspan].state = "closed"
        /\ spans[reqs[r].sspan].state = "closed"

\* C9: getPackage returns "found package" exactly when the id is "123" and
\* "unknown" otherwise, and the response body is
\* "package is <result> (id <id>)\n".
C9_ResultAndReply ==
    \A r \in DOMAIN reqs :
        /\ reqs[r].pc \in {"gp_ret", "h_replied", "h_done", "c_done"} => reqs[r].pr # ""
        /\ reqs[r].pr # "" =>
              /\ reqs[r].pr \in {"found package", "unknown"}
              /\ reqs[r].pr = "found package" <=> reqs[r].id = "123"
        /\ reqs[r].pc \in {"h_replied", "h_done", "c_done"} =>
              reqs[r].reply =
                  IF reqs[r].id = "123"
                  THEN <<"package is ", "found package", " (id ", "123", ")\n">>
                  ELSE <<"package is ", "unknown", " (id ", reqs[r].id, ")\n">>

C9_Witness ==
    \E r \in DOMAIN reqs :
        /\ reqs[r].id = "0123"
        /\ reqs[r].reply = <<"package is ", "unknown", " (id ", "0123", ")\n">>

ExpectedEvents(id) ==
    << [name |-> "getPackage", attrs |-> << <<"package", id>> >>],
       IF id = "123"
       THEN [name |-> "found package", attrs |-> <<>>]
       ELSE [name |-> "exception",
             attrs |-> << <<"exception.message", "package not found">> >>] >>

\* C10 (as claimed): every getPackage span has recorded, when getPackage
\* has returned, the "getPackage" event with package=<id> and then exactly
\* one of the "found package" event and the error "package not found".
C10_EventsRecorded ==
    \A r \in DOMAIN reqs :
        GetPackageReturned(r) =>
            spans[reqs[r].gspan].events = ExpectedEvents(reqs[r].id)

\* C10 (amended): every getPackage span that is sampled has recorded, when
\* getPackage has returned, the "getPackage" event with package=<id> and
\* then exactly one of the "found package" event and the error "package
\* not found"; a getPackage span the sampler dropped records nothing; and
\* nothing is added to a span after it is closed.
C10_EventsRecordedIfSampled ==
    /\ [](\A r \in DOMAIN reqs :
            GetPackageReturned(r) =>
                spans[reqs[r].gspan].events =
                    IF spans[reqs[r].gspan].sampled
                    THEN ExpectedEvents(reqs[r].id) ELSE <<>>)
    /\ [][\A i \in DOMAIN spans :
             spans[i].state = "closed" => spans'[i].events = spans[i].events]_vars

C10_Witness ==
    \E r \in DOMAIN reqs :
        /\ reqs[r].id = "0123"
        /\ GetPackageReturned(r)
        /\ spans[reqs[r].gspan].state = "closed"
        /\ Len(spans[reqs[r].gspan].events) = 2
        /\ spans[reqs[r].gspan].events[2].name = "exception"

----------------------------------------------------------------------------
(* Claims about the order of the steps of one request *)

\* The step in which getPackage starts its span for request r.
GetPackageStarts(r) == reqs[r].gspan = 0 /\ reqs'[r].gspan # 0

\* The step in which the handler of request r adds "Obtaining package".
HandlerAddsEvent(r) == reqs[r].pc = "gp_ret" /\ reqs'[r].pc = "h_replied"

ObtainingPackage(r) ==
    {k \in 1 .. Len(spans[reqs[r].sspan].events) :
        spans[reqs[r].sspan].events[k].name = "Obtaining package"}

\* C11: within one server request the getPackage span starts when the
\* request span has started and is not ended, getPackage has ended its span
\* when the handler adds "Obtaining package" to the request span, that
\* event is added while the request span is not ended (and is recorded if
\* the span is sampled), and the request span is ended only after the
\* handler has returned.
C11_SpansNested ==
    /\ [][\A r \in DOMAIN reqs :
             GetPackageStarts(r) =>
                 /\ reqs[r].sspan # 0
                 /\ spans[reqs[r].sspan].state \in {"open", "nonrecording"}
                 /\ spans[reqs[r].sspan].endCalls = 0
                 /\ spans'[reqs'[r].gspan].parent = reqs[r].sspan]_vars
    /\ [][\A r \in DOMAIN reqs :
             HandlerAddsEvent(r) =>
                 /\ spans[reqs[r].gspan].endCalls = 1
                 /\ spans[reqs[r].gspan].state \in {"closed", "nonrecording"}
                 /\ spans[reqs[r].sspan].endCalls = 0
                 /\ spans[reqs[r].sspan].state \in {"open", "nonrecording"}
                 /\ spans[reqs[r].sspan].sampled =>
                       /\ Len(spans'[reqs[r].sspan].events) =
                              Len(spans[reqs[r].sspan].events) + 1
                       /\ spans'[reqs[r].sspan].events[
                              Len(spans'[reqs[r].sspan].events)].name = "Obtaining package"]_vars
    /\ [](\A r \in DOMAIN reqs :
            reqs[r].sspan # 0 =>
                /\ spans[reqs[r].sspan].endCalls > 0 => HandlerReturned(r)
                /\ reqs[r].pc \in {"h_mw", "gp_open", "gp_ret"} =>
                      ObtainingPackage(r) = {})

C11_Witness ==
    \E r \in DOMAIN reqs :
        /\ reqs[r].pc = "h_done"
        /\ spans[reqs[r].sspan].state = "closed"
        /\ spans[reqs[r].gspan].state = "closed"
        /\ ObtainingPackage(r) = {1}

----------------------------------------------------------------------------
(* Claims about the baggage *)

\* The value the last member named key has in a baggage header, "" when
\* the header has no such member.
LastValue(h, key) ==
    LET K == {k \in 1 .. Len(h) : h[k][1] = key}
    IN  IF K = {} THEN ""
        ELSE h[CHOOSE k \in K : \A j \in K : j <= k][2]

HandlerReplied(r) == reqs[r].reply # <<>>

\* C12: the "Obtaining package" event on the request span of a request
\* the client program sent has the attributes destination="newyork" and
\* transportation="truck"; for every request the two attributes are the
\* values of the baggage members of these names that the request carried
\* (the empty string for a member it did not carry).
C12_BaggageAttributes ==
    \A r \in DOMAIN reqs :
        (HandlerReplied(r) /\ spans[reqs[r].sspan].sampled) =>
            LET evs == spans[reqs[r].sspan].events
            IN  /\ Len(evs) = 1
                /\ evs[1].name = "Obtaining package"
                /\ evs[1].attrs =
                      << <<"destination", LastValue(reqs[r].hdr.baggage, "destination")>>,
                         <<"transportation",
                           LastValue(reqs[r].hdr.baggage, "transportation")>> >>
                /\ reqs[r].origin = "client" =>
                      evs[1].attrs = << <<"destination", "newyork">>,
                                        <<"transportation", "truck">> >>

C12_Witness ==
    \E r, q \in DOMAIN reqs :
        /\ reqs[r].origin = "client"
        /\ HandlerReplied(r)
        /\ spans[reqs[r].sspan].events =
              << [name |-> "Obtaining package",
                  attrs |-> << <<"destination", "newyork">>,
                               <<"transportation", "truck">> >>] >>
        /\ reqs[q].origin = "other"
        /\ HandlerReplied(q)
        /\ spans[reqs[q].sspan].events =
              << [name |-> "Obtaining package",
                  attrs |-> << <<"destination", "miami">>,
                               <<"transportation", "">> >>] >>

----------------------------------------------------------------------------
(* Claims about concurrently handled requests *)

SpansOf(r) == {reqs[r].cspan, reqs[r].tspan, reqs[r].sspan, reqs[r].gspan} \ {0}

\* The events on the spans of request r carry the data of request r.
OwnEvents(r) ==
    /\ reqs[r].gspan # 0 =>
          \A k \in 1 .. Len(spans[reqs[r].gspan].events) :
              spans[reqs[r].gspan].events[k].name = "getPackage" =>
                  spans[reqs[r].gspan].events[k].attrs = << <<"package", reqs[r].id>> >>
    /\ reqs[r].sspan # 0 =>
          \A k \in 1 .. Len(spans[reqs[r].sspan].events) :
              spans[reqs[r].sspan].events[k].attrs =
                  << <<"destination", Member(reqs[r].rctx.bag, "destination")>>,
                     <<"transportation", Member(reqs[r].rctx.bag, "transportation")>> >>

\* C13: under every interleaving of concurrently handled requests a span
\* changes (event added, error recorded, ended) only in a step of the
\* request it belongs to; the getPackage span of a request has that
\* request's span as its parent and the same trace id; and the events on
\* the spans of a request are those of that request.
C13_SpansOwnedByRequest ==
    /\ [](\A r \in DOMAIN reqs :
            /\ \A i \in SpansOf(r) : spans[i].req = r
            /\ \A q \in DOMAIN reqs : q # r => SpansOf(q) \cap SpansOf(r) = {}
            /\ reqs[r].gspan # 0 =>
                  /\ spans[reqs[r].gspan].parent = reqs[r].sspan
                  /\ spans[reqs[r].gspan].trace = spans[reqs[r].sspan].trace
            /\ OwnEvents(r))
    /\ [](\A i \in Present : i \in SpansOf(spans[i].req))
    /\ [][\A i \in DOMAIN spans :
             spans'[i] # spans[i] =>
                 /\ reqs'[spans'[i].req].pc # reqs[spans'[i].req].pc
                 /\ \A q \in DOMAIN reqs :
                       q # spans'[i].req => reqs'[q] = reqs[q]]_vars

C13_Witness ==
    \E r, q \in DOMAIN reqs :
        /\ r # q
        /\ reqs[r].pc = "gp_ret"
        /\ reqs[q].pc = "gp_open"
        /\ reqs[r].id # reqs[q].id
        /\ spans[reqs[r].sspan].state = "open"
        /\ spans[reqs[q].sspan].state = "open"
        /\ spans[reqs[r].gspan].state = "closed"
        /\ spans[reqs[q].gspan].state = "open"

----------------------------------------------------------------------------
(* Claims about runServer *)

ShutdownCalled == spc \in {"draining", "otel_trace", "otel_meter"}

RunServerReturnedNil == spc \in {"otel_trace", "otel_meter"} \/ exitPath = "return"

RunServerReturnedErr == exitPath = "fatal_run"

\* C14: runServer calls server.Shutdown only after the interrupt has
\* arrived and has not returned before; once the interrupt has arrived
\* runServer returns (unless another signal kills the process first), nil
\* only when Shutdown found no request in flight any more, the error of
\* Shutdown when requests were still in flight at its return.
C14_RunServerWaitsForInterrupt ==
    /\ []((ShutdownCalled \/ RunServerReturnedNil \/ RunServerReturnedErr)
             => interrupted)
    /\ [](spc = "waiting" => ~interrupted)
    /\ [][(spc = "draining" /\ spc' = "otel_trace") => ActiveReqs = {}]_vars
    /\ [][(spc = "draining" /\ spc' # spc /\ ActiveReqs # {}) =>
             (spc' = "exited" /\ exitPath' \in {"fatal_run", "signal"})]_vars
    /\ (interrupted ~>
            (RunServerReturnedNil \/ RunServerReturnedErr \/ exitPath = "signal"))

C14_Witness ==
    /\ interrupted
    /\ RunServerReturnedErr
    /\ ActiveReqs # {}

\* C15 (as claimed): when ListenAndServe fails, runServer returns a non-nil
\* error and main ends the process with "Failed to start server": the
\* process ends, and unless a signal killed it, it ended through that
\* log.Fatalf.
C15_ListenFailureEndsProcess ==
    /\ []((listening = "failed" /\ spc = "exited" /\ exitPath # "signal")
            => RunServerReturnedErr)
    /\ (listening = "failed" ~> spc = "exited")

----------------------------------------------------------------------------
(* Claims about the shutdown closure InitProvider returns *)

\* C16: the closure shuts the trace exporter down first and the meter
\* provider second; an error of the trace exporter's Shutdown goes to
\* otel.Handle and the meter provider's Shutdown is called all the same;
\* after either error the process ends by main's return, not by
\* log.Fatalf.
C16_ShutdownOrderAndErrors ==
    /\ Len(shutdownLog) <= 2
    /\ Len(shutdownLog) >= 1 =>
          /\ shutdownLog[1].step = "traceExp.Shutdown"
          /\ traceExp = "shutdown"
    /\ Len(shutdownLog) = 0 => (traceExp # "shutdown" /\ meterProv # "shutdown")
    /\ Len(shutdownLog) = 1 =>
          /\ meterProv # "shutdown"
          /\ spc = "otel_meter" \/ (spc = "exited" /\ exitPath = "signal")
    /\ Len(shutdownLog) = 2 =>
          /\ shutdownLog[2].step = "meterProvider.Shutdown"
          /\ meterProv = "shutdown"
          /\ spc = "exited" /\ exitPath = "return"
    /\ \A k \in 1 .. Len(shutdownLog) :
          shutdownLog[k].onErr = IF shutdownLog[k].err THEN "otel.Handle" ELSE "none"

C16_Witness ==
    /\ Len(shutdownLog) = 2
    /\ shutdownLog[1].err
    /\ shutdownLog[2].err
    /\ meterProv = "shutdown"
    /\ exitPath = "return"

----------------------------------------------------------------------------
(* Claims about the drains at exit *)

\* C17 (as claimed): every drain the programs perform at exit -- the
\* Shutdown calls of the server's closure and the client's tp.Shutdown --
\* is given a context with a deadline.
C17_DrainsHaveDeadline ==
    /\ \A k \in 1 .. Len(shutdownLog) : shutdownLog[k].ctx = "WithTimeout(1s)"
    /\ \A r \in DOMAIN reqs :
          reqs[r].tpShutdown # NotCalled => reqs[r].tpShutdown.ctx # "Background"

----------------------------------------------------------------------------
(* Claims about the process-wide configuration of the server *)

ConfigComplete ==
    /\ \A f \in DOMAIN config : config[f] # "unset"
    /\ \A f \in DOMAIN configWrites : configWrites[f] = 1

\* C18: the tracer provider with its sampler, the meter provider, the
\* propagator and the exporter endpoint of the server are each set exactly
\* once, all of them before the server listens and before it handles a
\* request, and none is changed afterwards.
C18_ConfigSetOnce ==
    /\ [](\A f \in DOMAIN configWrites : configWrites[f] <= 1)
    /\ []((listening # "no" \/ listened) => ConfigComplete)
    /\ [](\A r \in DOMAIN reqs : reqs[r].sspan # 0 => ConfigComplete)
    /\ [][\A f \in DOMAIN config : config[f] # "unset" => config'[f] = config[f]]_vars
    /\ [][ConfigComplete => (config' = config /\ configWrites' = configWrites)]_vars

C18_Witness ==
    /\ ConfigComplete
    /\ config.sampler = "ParentBasedRatio"
    /\ config.endpoint = "0.0.0.0:4317"
    /\ spc = "exited"
    /\ exitPath = "return"
    /\ \E r \in DOMAIN reqs : reqs[r].pc = "h_done"

----------------------------------------------------------------------------
(* Claims about what the response depends on *)

\* C19: the response body of the handler depends on the id only: two
\* requests with the same id get the same body, whatever their baggage,
\* their incoming trace context, the sampling decision, a cancellation and
\* the state of the collector while they were handled.
C19_ReplyDependsOnIdOnly ==
    \A r, q \in DOMAIN reqs :
        (HandlerReplied(r) /\ HandlerReplied(q) /\ reqs[r].id = reqs[q].id)
            => reqs[r].reply = reqs[q].reply

C19_Witness ==
    \E r, q \in DOMAIN reqs :
        /\ HandlerReplied(r) /\ HandlerReplied(q)
        /\ reqs[r].id = reqs[q].id
        /\ reqs[r].reply = reqs[q].reply
        /\ reqs[r].origin = "client" /\ reqs[q].origin = "other"
        /\ reqs[r].rctx.bag # reqs[q].rctx.bag
        /\ IsValid(reqs[r].rctx.sc) /\ ~IsValid(reqs[q].rctx.sc)
        /\ ~spans[reqs[r].sspan].sampled /\ spans[reqs[q].sspan].sampled
        /\ collector = "down"

====
